---- MODULE Spec2Model ----
(***************************************************************************)
(* Model of backend/code_parser.py: the CodeParser chunking engine.        *)
(*                                                                         *)
(* A file content is a sequence of symbols.  A symbol stands for one unit  *)
(* of text: NL is the newline character, SP a space, TAB a tab, "{" and    *)
(* "}" the brace characters, "x", "a", "b" other text without whitespace   *)
(* or braces, and the keyword symbols ("def", "class", "function",         *)
(* "const", "export", "async", "default") stand for the keyword followed   *)
(* by the whitespace and the identifier the declaration patterns ask for.  *)
(* len() of a text is its number of symbols.                               *)
(***************************************************************************)
EXTENDS Integers, Sequences, FiniteSets, TLC

VARIABLES
    self,           \* the CodeParser object: [max_chunk_size, overlap]
    pc,             \* position of the running call
    callee,         \* the chunker the last chunker call went to
    content,        \* argument of the running chunker call
    file_path,      \* argument of the running chunker call (relative path)
    language,       \* argument of the running chunker call
    lines,          \* local: content.split('\n')
    chunks,         \* local: chunks emitted so far by the running chunker
    i,              \* local: loop index (1-based line number in the for loops,
                    \*        0-based window start in chunk_by_lines)
    current_chunk,  \* local of chunk_python / chunk_javascript
    current_start,  \* local of chunk_python / chunk_javascript
    indent_level,   \* local of chunk_python
    in_definition,  \* local of chunk_python / chunk_javascript
    brace_count,    \* local of chunk_javascript
    result,         \* the list returned by the last chunker call
    tree,           \* the files under repo_path, in rglob traversal order
    cursor,         \* parse_repository: index in tree of the file being visited
    repo_chunks,    \* parse_repository: its local list `chunks`
    opened          \* indices of the files parse_file has opened for reading

vars == <<self, pc, callee, content, file_path, language, lines, chunks, i,
          current_chunk, current_start, indent_level, in_definition,
          brace_count, result, tree, cursor, repo_chunks, opened>>

locals == <<lines, chunks, i, current_chunk, current_start, indent_level,
            in_definition, brace_count>>

args == <<callee, content, file_path, language>>

walk == <<tree, cursor, repo_chunks, opened>>

-----------------------------------------------------------------------------
(* Bounds of the model *)

\* largest max_chunk_size / overlap a parser is constructed with
MaxSize == 3
\* most lines of a file handed to chunk_by_lines
MaxWinLines == 6
\* most lines of a file handed to chunk_python / chunk_javascript
MaxLines == 3
\* most files in a repository tree
MaxFiles == 2

\* cap on the windows of a chunk_by_lines loop that does not advance
MaxIter == MaxWinLines + 2

-----------------------------------------------------------------------------
(* Text *)

NL == "\n"
SP == " "
TAB == "\t"

Whitespace == {SP, TAB, NL}

Min(a, b) == IF a < b THEN a ELSE b
Max(a, b) == IF a > b THEN a ELSE b

\* sequences over S of length lo..hi
SeqsOf(S, lo, hi) == UNION {[1..n -> S] : n \in lo..hi}

Abs(a) == IF a < 0 THEN 0 - a ELSE a

\* '\n'.join(ls): the lines with a newline between neighbours (computed by
\* halves, so that long files do not nest deeply)
RECURSIVE Join(_)
Join(ls) ==
    IF ls = <<>> THEN <<>>
    ELSE IF Len(ls) = 1 THEN ls[1]
    ELSE LET h == Len(ls) \div 2
         IN  Join(SubSeq(ls, 1, h)) \o <<NL>> \o Join(SubSeq(ls, h + 1, Len(ls)))

\* content.split('\n'): the text between the newlines, one more line than
\* there are newlines (cut at the newline nearest the middle, then by halves)
RECURSIVE Split(_)
Split(c) ==
    LET nls == {k \in 1..Len(c) : c[k] = NL}
        mid == (Len(c) + 1) \div 2
    IN  IF nls = {} THEN <<c>>
        ELSE LET k == CHOOSE k \in nls :
                          \A m \in nls : Abs(k - mid) <= Abs(m - mid)
             IN  Split(SubSeq(c, 1, k - 1)) \o Split(SubSeq(c, k + 1, Len(c)))

\* s[a:b] of a Python list, negative indices counted from the end
PySlice(s, a, b) ==
    LET n == Len(s)
        norm(k) == IF k < 0 THEN Max(k + n, 0) ELSE Min(k, n)
        lo == norm(a)
        hi == norm(b)
    IN  IF lo < hi THEN SubSeq(s, lo + 1, hi) ELSE <<>>

\* bool(text.strip()): the text has a symbol that is not whitespace
NonBlank(text) == \E k \in 1..Len(text) : text[k] \notin Whitespace

\* line.lstrip()
RECURSIVE lstrip(_)
lstrip(line) ==
    IF line # <<>> /\ Head(line) \in Whitespace THEN lstrip(Tail(line)) ELSE line

-----------------------------------------------------------------------------
(* CodeChunk and CodeParser construction *)

CodeChunk(c, path, start, end, lang, type) ==
    [content |-> c, file_path |-> path, start_line |-> start,
     end_line |-> end, language |-> lang, chunk_type |-> type]

\* CodeParser.__init__: stores its arguments, whatever they are
CodeParser_init(max_chunk_size, overlap) ==
    [max_chunk_size |-> max_chunk_size, overlap |-> overlap]

\* the arguments a parser is constructed with in the model: every pair of
\* small sizes, valid or not, and the parser of a 50-line window with an
\* overlap of 10
Sizes == (0 - 1)..MaxSize
Overlaps == (0 - 2)..MaxSize
ExampleParser == CodeParser_init(50, 10)
Parsers == {CodeParser_init(m, o) : m \in Sizes, o \in Overlaps}
               \cup {ExampleParser}

-----------------------------------------------------------------------------
(* chunk_by_lines *)

WinSymbols == {"a", "b"}
WinLineSet == {<<s>> : s \in WinSymbols}
WinContents == {Join(ls) : ls \in SeqsOf(WinLineSet, 1, MaxWinLines)}
\* a file of 120 lines, handed to the parser of the 50-line window
ExampleContent == Join([k \in 1..120 |-> IF k % 2 = 1 THEN <<"a">> ELSE <<"b">>])

\* the whole file as one chunk of type file
WholeFile(c, path, lang) == CodeChunk(c, path, 1, Len(Split(c)), lang, "file")

\* mutant: the window end is not cut at the last line
WindowEnd_Unclamped(s, idx, ls) == idx + s.max_chunk_size

\* end = min(i + self.max_chunk_size, len(lines))
WindowEnd(s, idx, ls) == Min(idx + s.max_chunk_size, Len(ls))

\* the chunk of the window starting at index idx
WindowChunk(s, idx, ls, path, lang) ==
    LET end == WindowEnd(s, idx, ls)
    IN  CodeChunk(Join(PySlice(ls, idx, end)), path, idx + 1, end, lang, "block")

\* mutant: the overlap is added to the step instead of taken from it
WindowAdvance_AddsOverlap(s, idx) == idx + s.max_chunk_size + s.overlap

\* mutant: the window advances by the overlap alone
WindowAdvance_ByOverlap(s, idx) == idx + s.overlap

\* mutant: the window advances by its full size
WindowAdvance_NoOverlap(s, idx) == idx + s.max_chunk_size

\* i += self.max_chunk_size - self.overlap
WindowAdvance(s, idx) == idx + s.max_chunk_size - s.overlap

\* entry of chunk_by_lines up to the small-file test
chunk_by_lines_enter(c, path, lang) ==
    /\ callee' = "chunk_by_lines"
    /\ content' = c
    /\ file_path' = path
    /\ language' = lang
    /\ lines' = Split(c)
    /\ chunks' = <<>>
    /\ i' = 0
    /\ UNCHANGED <<current_chunk, current_start, indent_level, in_definition,
                   brace_count>>
    /\ IF Len(Split(c)) <= self.max_chunk_size
       THEN /\ result' = <<WholeFile(c, path, lang)>>
            /\ pc' = "returned"
       ELSE /\ result' = <<>>
            /\ pc' = "window_loop"

\* one iteration of the while loop
chunk_by_lines_loop ==
    /\ pc = "window_loop"
    /\ i < Len(lines)
    /\ ~(WindowAdvance(self, i) <= i /\ Len(chunks) >= MaxIter)
    /\ chunks' = Append(chunks, WindowChunk(self, i, lines, file_path, language))
    /\ i' = WindowAdvance(self, i)
    /\ UNCHANGED <<self, pc, args, lines, current_chunk,
                   current_start, indent_level, in_definition, brace_count,
                   result, walk>>

\* the loop condition fails: return chunks
chunk_by_lines_return ==
    /\ pc = "window_loop"
    /\ ~(i < Len(lines))
    /\ result' = chunks
    /\ pc' = "returned"
    /\ UNCHANGED <<self, args, locals, walk>>

\* a direct call of chunk_by_lines on a parser at rest
chunk_by_lines_call ==
    /\ pc = "ready"
    /\ \E c \in WinContents \cup (IF self = ExampleParser THEN {ExampleContent}
                                  ELSE {}) :
          chunk_by_lines_enter(c, <<<<"a", ".txt">>>>, "text")
    /\ UNCHANGED <<self, walk>>

-----------------------------------------------------------------------------
(* chunk_python *)

\* the lines of the files handed to chunk_python in the model
PyLineSet == {<<>>, <<"x">>, <<SP, "x">>, <<"def">>, <<SP, "def">>,
              <<TAB, "def">>, <<"class">>}
PyContents == {Join(ls) : ls \in SeqsOf(PyLineSet, 1, MaxLines)}

\* func_pattern.match(stripped): ^(def|class)\s+(\w+)
py_func_pattern(stripped) == stripped # <<>> /\ Head(stripped) \in {"def", "class"}

\* line.startswith(' ' * n)
StartsWithSpaces(line, n) == Len(line) >= n /\ \A k \in 1..n : line[k] = SP

\* current_chunk[0].strip().split()[0]: the first word of the chunk's first line
FirstWord(chunk_lines) == Head(lstrip(chunk_lines[1]))

\* chunks.append(CodeChunk(...)) guarded by `if chunk_content.strip()`
AppendIfNonBlank(cs, chunk_lines, path, start, end, lang, type) ==
    IF NonBlank(Join(chunk_lines))
    THEN Append(cs, CodeChunk(Join(chunk_lines), path, start, end, lang, type))
    ELSE cs

\* `if current_chunk:` then the guarded append
FlushBlock(cs, chunk_lines, path, start, end, lang) ==
    IF chunk_lines # <<>>
    THEN AppendIfNonBlank(cs, chunk_lines, path, start, end, lang, "block")
    ELSE cs

\* the body of the for loop of chunk_python on line number n; st holds the locals
PyLine(st, n, line, path, lang) ==
    LET stripped == lstrip(line)
        match == py_func_pattern(stripped)
    IN  IF match /\ ~st.in_definition
        THEN [chunks |-> FlushBlock(st.chunks, st.current_chunk, path,
                                    st.current_start, n - 1, lang),
              current_chunk |-> <<line>>,
              current_start |-> n,
              in_definition |-> TRUE,
              indent_level |-> Len(line) - Len(stripped)]
        ELSE IF st.in_definition
        THEN LET appended == Append(st.current_chunk, line)
             IN  IF /\ stripped # <<>>
                    /\ ~StartsWithSpaces(line, st.indent_level + 1)
                    /\ n > st.current_start
                    /\ py_func_pattern(stripped)
                 THEN [chunks |-> AppendIfNonBlank(st.chunks,
                                      SubSeq(appended, 1, Len(appended) - 1),
                                      path, st.current_start, n - 1, lang,
                                      FirstWord(appended)),
                       current_chunk |-> <<line>>,
                       current_start |-> n,
                       in_definition |-> st.in_definition,
                       indent_level |-> Len(line) - Len(stripped)]
                 ELSE [st EXCEPT !.current_chunk = appended]
        ELSE [st EXCEPT !.current_chunk = Append(st.current_chunk, line)]

\* mutant: what is still accumulated at the end of the file is not emitted
PyFinal_NoFlush(cs, chunk_lines, path, start, ls, lang) == cs

\* "Add final chunk": what is still accumulated goes out as a block
PyFinal(cs, chunk_lines, path, start, ls, lang) ==
    FlushBlock(cs, chunk_lines, path, start, Len(ls), lang)

\* the small-file test: not chunks or len(chunks) == 1 and len(content) < max
PyWholeFileTest(s, cs, c) ==
    cs = <<>> \/ (Len(cs) = 1 /\ Len(c) < s.max_chunk_size)

\* entry of chunk_python up to the for loop
chunk_python_enter(c, path, lang) ==
    /\ callee' = "chunk_python"
    /\ content' = c
    /\ file_path' = path
    /\ language' = lang
    /\ lines' = Split(c)
    /\ chunks' = <<>>
    /\ i' = 1
    /\ current_chunk' = <<>>
    /\ current_start' = 1
    /\ indent_level' = 0
    /\ in_definition' = FALSE
    /\ result' = <<>>
    /\ pc' = "python_loop"
    /\ UNCHANGED brace_count

\* one iteration of the for loop
chunk_python_line ==
    /\ pc = "python_loop"
    /\ i <= Len(lines)
    /\ LET st == PyLine([chunks |-> chunks, current_chunk |-> current_chunk,
                         current_start |-> current_start,
                         in_definition |-> in_definition,
                         indent_level |-> indent_level],
                        i, lines[i], file_path, language)
       IN  /\ chunks' = st.chunks
           /\ current_chunk' = st.current_chunk
           /\ current_start' = st.current_start
           /\ in_definition' = st.in_definition
           /\ indent_level' = st.indent_level
    /\ i' = i + 1
    /\ UNCHANGED <<self, pc, args, lines, brace_count,
                   result, walk>>

\* after the loop: the final chunk, the small-file test, return
chunk_python_return ==
    /\ pc = "python_loop"
    /\ i > Len(lines)
    /\ LET final == PyFinal(chunks, current_chunk, file_path, current_start,
                            lines, language)
       IN  /\ chunks' = final
           /\ result' = IF PyWholeFileTest(self, final, content)
                        THEN <<WholeFile(content, file_path, language)>>
                        ELSE final
    /\ pc' = "returned"
    /\ UNCHANGED <<self, args, lines, i, current_chunk,
                   current_start, indent_level, in_definition, brace_count, walk>>

\* a direct call of chunk_python on a parser at rest
chunk_python_call ==
    /\ pc = "ready"
    /\ \E c \in PyContents : chunk_python_enter(c, <<<<"a", ".py">>>>, "python")
    /\ UNCHANGED <<self, walk>>

-----------------------------------------------------------------------------
(* chunk_javascript *)

\* the lines of the files handed to chunk_javascript in the model
JsLineSet == {<<>>, <<"x">>, <<"}">>, <<"function", "{">>, <<"class", "{">>,
              <<"const">>, <<SP, "x", "{", "}">>, <<"function", "{", "}">>}
JsContents == {Join(ls) : ls \in SeqsOf(JsLineSet, 1, MaxLines)}

\* an optional modifier and the whitespace after it
SkipModifier(s, word) ==
    IF s # <<>> /\ Head(s) = word THEN lstrip(Tail(s)) ELSE s

\* func_pattern: ^\s*(export\s+)?(async\s+)?(function|const|let|var)\s+\w+
js_func_pattern(line) ==
    LET s == SkipModifier(SkipModifier(lstrip(line), "export"), "async")
    IN  s # <<>> /\ Head(s) \in {"function", "const", "let", "var"}

\* class_pattern: ^\s*(export\s+)?(default\s+)?class\s+\w+
js_class_pattern(line) ==
    LET s == SkipModifier(SkipModifier(lstrip(line), "export"), "default")
    IN  s # <<>> /\ Head(s) = "class"

\* line.count(ch)
Count(line, ch) == Cardinality({k \in 1..Len(line) : line[k] = ch})

\* mutant: closing braces are not counted
BraceDelta_OpensOnly(line) == Count(line, "{")

\* line.count('{') - line.count('}')
BraceDelta(line) == Count(line, "{") - Count(line, "}")

\* '{' in ''.join(current_chunk)
HasOpenBrace(chunk_lines) ==
    \E k \in 1..Len(chunk_lines) : Count(chunk_lines[k], "{") > 0

\* the body of the for loop of chunk_javascript on line number n
JsLine(st, n, line, path, lang) ==
    IF js_func_pattern(line) \/ js_class_pattern(line)
    THEN [chunks |-> IF st.current_chunk # <<>> /\ ~st.in_definition
                     THEN AppendIfNonBlank(st.chunks, st.current_chunk, path,
                                           st.current_start, n - 1, lang, "block")
                     ELSE st.chunks,
          current_chunk |-> <<line>>,
          current_start |-> n,
          in_definition |-> TRUE,
          brace_count |-> BraceDelta(line)]
    ELSE LET appended == Append(st.current_chunk, line)
             count == st.brace_count + BraceDelta(line)
         IN  IF st.in_definition
             THEN IF count = 0 /\ HasOpenBrace(appended)
                  THEN [chunks |-> AppendIfNonBlank(st.chunks, appended, path,
                                       st.current_start, n, lang, "function"),
                        current_chunk |-> <<>>,
                        current_start |-> n + 1,
                        in_definition |-> FALSE,
                        brace_count |-> count]
                  ELSE [st EXCEPT !.current_chunk = appended,
                                  !.brace_count = count]
             ELSE [st EXCEPT !.current_chunk = appended]

\* "Add final chunk"
JsFinal(cs, chunk_lines, path, start, ls, lang) ==
    FlushBlock(cs, chunk_lines, path, start, Len(ls), lang)

\* entry of chunk_javascript up to the for loop
chunk_javascript_enter(c, path, lang) ==
    /\ callee' = "chunk_javascript"
    /\ content' = c
    /\ file_path' = path
    /\ language' = lang
    /\ lines' = Split(c)
    /\ chunks' = <<>>
    /\ i' = 1
    /\ current_chunk' = <<>>
    /\ current_start' = 1
    /\ brace_count' = 0
    /\ in_definition' = FALSE
    /\ result' = <<>>
    /\ pc' = "javascript_loop"
    /\ UNCHANGED indent_level

\* one iteration of the for loop
chunk_javascript_line ==
    /\ pc = "javascript_loop"
    /\ i <= Len(lines)
    /\ LET st == JsLine([chunks |-> chunks, current_chunk |-> current_chunk,
                         current_start |-> current_start,
                         in_definition |-> in_definition,
                         brace_count |-> brace_count],
                        i, lines[i], file_path, language)
       IN  /\ chunks' = st.chunks
           /\ current_chunk' = st.current_chunk
           /\ current_start' = st.current_start
           /\ in_definition' = st.in_definition
           /\ brace_count' = st.brace_count
    /\ i' = i + 1
    /\ UNCHANGED <<self, pc, args, lines, indent_level,
                   result, walk>>

\* after the loop: the final chunk, the whole-file fallback, return
chunk_javascript_return ==
    /\ pc = "javascript_loop"
    /\ i > Len(lines)
    /\ LET final == JsFinal(chunks, current_chunk, file_path, current_start,
                            lines, language)
       IN  /\ chunks' = final
           /\ result' = IF final = <<>>
                        THEN <<WholeFile(content, file_path, language)>>
                        ELSE final
    /\ pc' = "returned"
    /\ UNCHANGED <<self, args, lines, i, current_chunk,
                   current_start, indent_level, in_definition, brace_count, walk>>

\* a direct call of chunk_javascript on a parser at rest
chunk_javascript_call ==
    /\ pc = "ready"
    /\ \E c \in JsContents : chunk_javascript_enter(c, <<<<"a", ".js">>>>, "javascript")
    /\ UNCHANGED <<self, walk>>

-----------------------------------------------------------------------------
(* Paths, PathFilter and LanguageClassifier *)

(* A path is the sequence of its segments (Path.parts); a segment is the     *)
(* sequence of its dot-separated pieces, so that app.min.js is               *)
(* <<"app", ".min", ".js">> and the directory node_modules is                *)
(* <<"node_modules">>.                                                       *)

LANGUAGE_MAP ==
    [e \in {".py", ".js", ".jsx", ".ts", ".tsx", ".java", ".cpp", ".c", ".h",
            ".hpp", ".cs", ".go", ".rs", ".rb", ".php", ".swift", ".kt", ".r",
            ".sql", ".sh", ".yaml", ".yml", ".json", ".xml", ".html", ".css",
            ".md"} |->
        CASE e = ".py" -> "python"
          [] e \in {".js", ".jsx"} -> "javascript"
          [] e \in {".ts", ".tsx"} -> "typescript"
          [] e = ".java" -> "java"
          [] e \in {".cpp", ".hpp"} -> "cpp"
          [] e \in {".c", ".h"} -> "c"
          [] e = ".cs" -> "csharp"
          [] e = ".go" -> "go"
          [] e = ".rs" -> "rust"
          [] e = ".rb" -> "ruby"
          [] e = ".php" -> "php"
          [] e = ".swift" -> "swift"
          [] e = ".kt" -> "kotlin"
          [] e = ".r" -> "r"
          [] e = ".sql" -> "sql"
          [] e = ".sh" -> "bash"
          [] e \in {".yaml", ".yml"} -> "yaml"
          [] e = ".json" -> "json"
          [] e = ".xml" -> "xml"
          [] e = ".html" -> "html"
          [] e = ".css" -> "css"
          [] e = ".md" -> "markdown"]

IGNORE_PATTERNS ==
    {"__pycache__", "node_modules", ".git", ".venv", "venv", "dist", "build",
     ".next", ".cache", "target", "bin", "obj", ".pytest_cache", "coverage",
     ".idea", ".vscode"}

SKIP_EXTENSIONS ==
    {".pyc", ".pyo", ".so", ".dylib", ".dll", ".exe", ".bin", ".jpg", ".jpeg",
     ".png", ".gif", ".pdf", ".zip", ".tar", ".gz", ".mp4", ".mp3", ".lock",
     ".min.js", ".map"}

\* Path.suffix: the last dot-piece of the final segment, '' when it has none
Suffix(path) ==
    LET name == path[Len(path)]
    IN  IF Len(name) > 1 THEN name[Len(name)] ELSE ""

\* str.lower() on the suffixes of the model
Lower(ext) ==
    CASE ext = ".PY" -> ".py"
      [] ext = ".PNG" -> ".png"
      [] ext = ".JS" -> ".js"
      [] OTHER -> ext

\* mutant: only the last segment is compared with the patterns
should_ignore_NameOnly(path) ==
    \E pattern \in IGNORE_PATTERNS : path[Len(path)] = <<pattern>>

\* should_ignore: any(pattern in parts for pattern in IGNORE_PATTERNS)
should_ignore(path) ==
    \E pattern \in IGNORE_PATTERNS : \E k \in 1..Len(path) : path[k] = <<pattern>>

\* file_path.suffix.lower() in self.SKIP_EXTENSIONS
SkippedExtension(path) == Lower(Suffix(path)) \in SKIP_EXTENSIONS

\* get_language: LANGUAGE_MAP.get(ext, 'text')
get_language(path) ==
    LET ext == Lower(Suffix(path))
    IN  IF ext \in DOMAIN LANGUAGE_MAP THEN LANGUAGE_MAP[ext] ELSE "text"

-----------------------------------------------------------------------------
(* parse_repository and parse_file *)

(* An entry of the tree: rel, its path relative to repo_path; is_file;      *)
(* readable, whether open()/read() succeeds; content, what read() returns.  *)
Entry(rel, is_file, readable, c) ==
    [rel |-> rel, is_file |-> is_file, readable |-> readable, content |-> c]

PyText == <<"def", NL, "x">>
JsText == <<"function", "{", NL, "}">>
PlainText == <<"a", NL, "b">>

Entries ==
    { Entry(<<<<"src">>, <<"a", ".py">>>>, TRUE, TRUE, PyText),
      Entry(<<<<"b", ".py">>>>, TRUE, FALSE, PyText),
      Entry(<<<<"c", ".py">>>>, TRUE, TRUE, <<SP, NL>>),
      Entry(<<<<"d", ".PY">>>>, TRUE, TRUE, PyText),
      Entry(<<<<"e", ".js">>>>, TRUE, TRUE, JsText),
      Entry(<<<<"f", ".java">>>>, TRUE, TRUE, JsText),
      Entry(<<<<"t", ".ts">>>>, TRUE, TRUE, JsText),
      Entry(<<<<"u", ".cs">>>>, TRUE, TRUE, JsText),
      Entry(<<<<"README">>>>, TRUE, TRUE, PlainText),
      Entry(<<<<"src">>>>, FALSE, FALSE, <<>>),
      Entry(<<<<"node_modules">>, <<"g", ".js">>>>, TRUE, TRUE, JsText),
      Entry(<<<<".git">>, <<"config">>>>, TRUE, TRUE, PlainText),
      Entry(<<<<"build">>>>, TRUE, TRUE, PlainText),
      Entry(<<<<"h", ".png">>>>, TRUE, TRUE, PlainText),
      Entry(<<<<"app", ".min", ".js">>>>, TRUE, TRUE, JsText),
      Entry(<<<<"i", ".lock">>>>, TRUE, TRUE, PlainText) }

\* the directories repo_path may be
Roots == {<<<<"tmp">>, <<"repo">>>>, <<<<"build">>, <<"repo">>>>}

\* a tree: repo_path and its entries in rglob order, no path twice
Trees ==
    {[root |-> r, files |-> fs] : r \in Roots,
        fs \in {f \in SeqsOf(Entries, 0, MaxFiles) :
                   \A j, k \in 1..Len(f) : j # k => f[j].rel # f[k].rel}}

\* the parsers a walk is run with
WalkParsers == {CodeParser_init(m, o) : m \in {1, MaxSize}, o \in {0, 1}}

\* the entry the walk is at, and its path under repo_path
Visited == tree.files[cursor]
FullPath(e) == tree.root \o e.rel

\* the three `continue` tests at the top of the loop body
Filtered(e) ==
    \/ ~e.is_file
    \/ should_ignore(FullPath(e))
    \/ SkippedExtension(FullPath(e))

\* parse_repository(repo_path): chunks = [] and the walk begins
parse_repository_call ==
    /\ pc = "ready"
    /\ \E t \in Trees : tree' = t
    /\ cursor' = 1
    /\ repo_chunks' = <<>>
    /\ opened' = {}
    /\ pc' = "walk"
    /\ UNCHANGED <<self, args, locals, result>>

\* an entry that is no file, is ignored or has a skipped extension: continue
parse_repository_skip ==
    /\ pc = "walk"
    /\ cursor <= Len(tree.files)
    /\ Filtered(Visited)
    /\ cursor' = cursor + 1
    /\ UNCHANGED <<self, pc, args, locals, result,
                   tree, repo_chunks, opened>>

\* mutant: the exception of the read leaves the loop of parse_repository
parse_file_error_Aborts ==
    /\ pc = "walk"
    /\ cursor <= Len(tree.files)
    /\ ~Filtered(Visited)
    /\ ~Visited.readable
    /\ opened' = opened \cup {cursor}
    /\ cursor' = Len(tree.files) + 1
    /\ UNCHANGED <<self, pc, args, locals, result, tree, repo_chunks>>

\* parse_file: the read raises; [] is returned and extended
parse_file_error ==
    /\ pc = "walk"
    /\ cursor <= Len(tree.files)
    /\ ~Filtered(Visited)
    /\ ~Visited.readable
    /\ opened' = opened \cup {cursor}
    /\ cursor' = cursor + 1
    /\ UNCHANGED <<self, pc, args, locals, result,
                   tree, repo_chunks>>

\* parse_file: `if not content.strip(): return []`
parse_file_blank ==
    /\ pc = "walk"
    /\ cursor <= Len(tree.files)
    /\ ~Filtered(Visited)
    /\ Visited.readable
    /\ ~NonBlank(Visited.content)
    /\ opened' = opened \cup {cursor}
    /\ cursor' = cursor + 1
    /\ UNCHANGED <<self, pc, args, locals, result,
                   tree, repo_chunks>>

\* mutant: every brace-delimited language of the table goes to chunk_javascript
Chunker_BraceFamily(lang) ==
    IF lang = "python" THEN "chunk_python"
    ELSE IF lang \in {"javascript", "typescript", "java", "c", "cpp", "csharp"}
    THEN "chunk_javascript"
    ELSE "chunk_by_lines"

\* the chunker parse_file hands a language to
Chunker(lang) ==
    IF lang = "python" THEN "chunk_python"
    ELSE IF lang \in {"javascript", "typescript"} THEN "chunk_javascript"
    ELSE "chunk_by_lines"

\* parse_file: the content is read and handed to the chunker of its language
parse_file_dispatch ==
    /\ pc = "walk"
    /\ cursor <= Len(tree.files)
    /\ ~Filtered(Visited)
    /\ Visited.readable
    /\ NonBlank(Visited.content)
    /\ opened' = opened \cup {cursor}
    /\ LET lang == get_language(FullPath(Visited))
           which == Chunker(lang)
       IN  IF which = "chunk_python"
           THEN chunk_python_enter(Visited.content, Visited.rel, lang)
           ELSE IF which = "chunk_javascript"
           THEN chunk_javascript_enter(Visited.content, Visited.rel, lang)
           ELSE chunk_by_lines_enter(Visited.content, Visited.rel, lang)
    /\ UNCHANGED <<self, tree, cursor, repo_chunks>>

\* chunks.extend(file_chunks) and on to the next entry
parse_repository_extend ==
    /\ pc = "returned"
    /\ cursor > 0
    /\ repo_chunks' = repo_chunks \o result
    /\ cursor' = cursor + 1
    /\ pc' = "walk"
    /\ UNCHANGED <<self, args, locals, result, tree,
                   opened>>

\* the walk is over: return chunks
parse_repository_return ==
    /\ pc = "walk"
    /\ cursor > Len(tree.files)
    /\ pc' = "done"
    /\ result' = repo_chunks
    /\ UNCHANGED <<self, args, locals, walk>>

-----------------------------------------------------------------------------
(* The chunkers and parse_file as functions of their arguments: the loops    *)
(* above run to their end.                                                   *)

RECURSIVE PyLoop(_, _, _, _, _)
PyLoop(st, n, ls, path, lang) ==
    IF n > Len(ls) THEN st
    ELSE PyLoop(PyLine(st, n, ls[n], path, lang), n + 1, ls, path, lang)

chunk_python(s, c, path, lang) ==
    LET ls == Split(c)
        st == PyLoop([chunks |-> <<>>, current_chunk |-> <<>>,
                      current_start |-> 1, in_definition |-> FALSE,
                      indent_level |-> 0], 1, ls, path, lang)
        final == PyFinal(st.chunks, st.current_chunk, path, st.current_start,
                         ls, lang)
    IN  IF PyWholeFileTest(s, final, c) THEN <<WholeFile(c, path, lang)>>
        ELSE final

RECURSIVE JsLoop(_, _, _, _, _)
JsLoop(st, n, ls, path, lang) ==
    IF n > Len(ls) THEN st
    ELSE JsLoop(JsLine(st, n, ls[n], path, lang), n + 1, ls, path, lang)

chunk_javascript(s, c, path, lang) ==
    LET ls == Split(c)
        st == JsLoop([chunks |-> <<>>, current_chunk |-> <<>>,
                      current_start |-> 1, in_definition |-> FALSE,
                      brace_count |-> 0], 1, ls, path, lang)
        final == JsFinal(st.chunks, st.current_chunk, path, st.current_start,
                         ls, lang)
    IN  IF final = <<>> THEN <<WholeFile(c, path, lang)>> ELSE final

\* defined where the while loop ends (the window advances)
RECURSIVE WindowLoop(_, _, _, _, _, _)
WindowLoop(s, idx, ls, cs, path, lang) ==
    IF idx < Len(ls)
    THEN WindowLoop(s, WindowAdvance(s, idx), ls,
                    Append(cs, WindowChunk(s, idx, ls, path, lang)), path, lang)
    ELSE cs

chunk_by_lines(s, c, path, lang) ==
    IF Len(Split(c)) <= s.max_chunk_size THEN <<WholeFile(c, path, lang)>>
    ELSE WindowLoop(s, 0, Split(c), <<>>, path, lang)

\* parse_file(str(file_path), str(rel_path)) on an entry e under root
parse_file(s, root, e) ==
    IF ~e.readable THEN <<>>
    ELSE IF ~NonBlank(e.content) THEN <<>>
    ELSE LET lang == get_language(root \o e.rel)
             which == Chunker(lang)
         IN  IF which = "chunk_python"
             THEN chunk_python(s, e.content, e.rel, lang)
             ELSE IF which = "chunk_javascript"
             THEN chunk_javascript(s, e.content, e.rel, lang)
             ELSE chunk_by_lines(s, e.content, e.rel, lang)

-----------------------------------------------------------------------------
(* Specifications *)

NoLocals ==
    /\ callee = "none"
    /\ content = <<>>
    /\ file_path = <<>>
    /\ language = "text"
    /\ lines = <<>>
    /\ chunks = <<>>
    /\ i = 0
    /\ current_chunk = <<>>
    /\ current_start = 1
    /\ indent_level = 0
    /\ in_definition = FALSE
    /\ brace_count = 0
    /\ result = <<>>

NoWalk ==
    /\ tree = <<>>
    /\ cursor = 0
    /\ repo_chunks = <<>>
    /\ opened = {}

Init ==
    /\ self \in Parsers
    /\ pc = "ready"
    /\ NoLocals
    /\ NoWalk

WindowNext ==
    \/ chunk_by_lines_call
    \/ chunk_by_lines_loop
    \/ chunk_by_lines_return

ChunkerNext ==
    \/ chunk_python_call
    \/ chunk_python_line
    \/ chunk_python_return
    \/ chunk_javascript_call
    \/ chunk_javascript_line
    \/ chunk_javascript_return
    \/ chunk_by_lines_call
    \/ chunk_by_lines_loop
    \/ chunk_by_lines_return

\* the three chunkers, each called on a constructed parser
Spec == Init /\ [][ChunkerNext]_vars

InitWalk ==
    /\ self \in WalkParsers
    /\ pc = "ready"
    /\ NoLocals
    /\ NoWalk

WalkNext ==
    \/ parse_repository_call
    \/ parse_repository_skip
    \/ parse_file_error
    \/ parse_file_blank
    \/ parse_file_dispatch
    \/ chunk_python_line
    \/ chunk_python_return
    \/ chunk_javascript_line
    \/ chunk_javascript_return
    \/ chunk_by_lines_loop
    \/ chunk_by_lines_return
    \/ parse_repository_extend
    \/ parse_repository_return

\* parse_repository on a tree
SpecWalk == InitWalk /\ [][WalkNext]_vars

\* chunk_by_lines alone; the interpreter runs a started loop to its end
SpecWindow == Init /\ [][WindowNext]_vars /\ WF_vars(chunk_by_lines_loop)
                   /\ WF_vars(chunk_by_lines_return)

-----------------------------------------------------------------------------
(* Properties *)

\* 0 <= overlap < max_chunk_size
ValidConfig == 0 <= self.overlap /\ self.overlap < self.max_chunk_size

\* the number of lines of the file of the running chunker call: len(lines)
TotalLines == Len(lines)

\* the chunk's content is the newline-join of the lines start_line..end_line
Faithful(ch, ls) ==
    \/ /\ ch.start_line > ch.end_line
       /\ ch.content = <<>>
    \/ /\ 1 <= ch.start_line
       /\ ch.start_line <= ch.end_line
       /\ ch.end_line <= Len(ls)
       /\ ch.content = Join(SubSeq(ls, ch.start_line, ch.end_line))

\* the indices of the chunks of cs whose range holds line n
Holding(cs, n) ==
    {k \in 1..Len(cs) : cs[k].start_line <= n /\ n <= cs[k].end_line}

\* C1: every chunk a chunker returns has as content the newline-join of the
\* lines start_line..end_line of the content it was called on.
C1_ContentFidelity ==
    pc = "returned" =>
        \A k \in 1..Len(result) : Faithful(result[k], Split(content))

\* C2: the chunks chunk_python or chunk_javascript returns for a non-empty
\* file cover each line 1..total_lines exactly once (stated for the parsers
\* with 0 <= overlap < max_chunk_size, which no other claim puts in doubt).
C2_StructuralCoverage ==
    (/\ pc = "returned"
     /\ ValidConfig
     /\ callee \in {"chunk_python", "chunk_javascript"}
     /\ NonBlank(content))
    => \A n \in 1..TotalLines : Cardinality(Holding(result, n)) = 1

\* C3: with 0 <= overlap < max_chunk_size the windows chunk_by_lines returns
\* cover exactly 1..n, consecutive windows leave no gap, and a file of at most
\* max_chunk_size lines comes back as one chunk of type file over 1..n.
C3_WindowCoverage ==
    (pc = "returned" /\ callee = "chunk_by_lines" /\ ValidConfig) =>
        /\ Len(result) >= 1
        /\ \A k \in 1..Len(result) :
              /\ 1 <= result[k].start_line
              /\ result[k].end_line <= TotalLines
        /\ \A n \in 1..TotalLines : Holding(result, n) # {}
        /\ \A k \in 1..(Len(result) - 1) :
              result[k + 1].start_line <= result[k].end_line + 1
        /\ TotalLines <= self.max_chunk_size =>
              /\ Len(result) = 1
              /\ result[1].chunk_type = "file"
              /\ result[1].start_line = 1
              /\ result[1].end_line = TotalLines

C3_Witness ==
    /\ pc = "returned"
    /\ callee = "chunk_by_lines"
    /\ ValidConfig
    /\ self.overlap > 0
    /\ Len(result) >= 3

\* 1 <= start_line <= end_line <= total
InRange(ch, total) ==
    /\ 1 <= ch.start_line
    /\ ch.start_line <= ch.end_line
    /\ ch.end_line <= total

\* C4: with 0 <= overlap < max_chunk_size every chunk a chunker emits has
\* 1 <= start_line <= end_line <= total_lines of its file.
C4_RangeValidity ==
    (callee # "none" /\ ValidConfig) =>
        /\ \A k \in 1..Len(chunks) : InRange(chunks[k], TotalLines)
        /\ \A k \in 1..Len(result) : InRange(result[k], TotalLines)

\* the last window of a returned chunk_by_lines run was cut at the last line
C4_Witness ==
    /\ pc = "returned"
    /\ callee = "chunk_by_lines"
    /\ ValidConfig
    /\ Len(result) >= 2
    /\ LET last == result[Len(result)]
       IN  /\ last.end_line = TotalLines
           /\ last.end_line - last.start_line + 1 < self.max_chunk_size

\* C5: a parser with overlap >= max_chunk_size or max_chunk_size <= 0 is
\* refused by the constructor, so no chunker call runs on such a parser.
C5_MisconfigurationFatal ==
    pc # "ready" =>
        ~(self.overlap >= self.max_chunk_size \/ self.max_chunk_size <= 0)

\* C6: with 0 <= overlap < max_chunk_size each iteration of the loop of
\* chunk_by_lines strictly increases the window start, and a started loop
\* returns.
C6_WindowTermination ==
    /\ [][(chunk_by_lines_loop /\ ValidConfig) => i' > i]_vars
    /\ (pc = "window_loop" /\ ValidConfig) ~> (pc = "returned")

C6_Witness ==
    /\ pc = "returned"
    /\ callee = "chunk_by_lines"
    /\ ValidConfig
    /\ Len(result) >= 2

\* C7: for a file of n > max_chunk_size lines (0 <= overlap < max_chunk_size)
\* chunk_by_lines returns one block per window start 1 + k*(max_chunk_size -
\* overlap) <= n, k = 0, 1, ..., each ending at min(start + max_chunk_size - 1,
\* n) and holding at most max_chunk_size lines.
C7_WindowProgress ==
    (/\ pc = "returned"
     /\ callee = "chunk_by_lines"
     /\ ValidConfig
     /\ TotalLines > self.max_chunk_size)
    => LET step == self.max_chunk_size - self.overlap
           count == ((TotalLines - 1) \div step) + 1
       IN  /\ Len(result) = count
           /\ \A k \in 1..Len(result) :
                 LET start == 1 + (k - 1) * step
                 IN  /\ result[k].chunk_type = "block"
                     /\ result[k].start_line = start
                     /\ result[k].end_line =
                            Min(start + self.max_chunk_size - 1, TotalLines)
                     /\ result[k].end_line - result[k].start_line + 1
                            <= self.max_chunk_size

\* max_chunk_size = 50, overlap = 10, 120 lines: windows at 1, 41 and 81
C7_Witness ==
    /\ pc = "returned"
    /\ callee = "chunk_by_lines"
    /\ self = ExampleParser
    /\ TotalLines = 120
    /\ [k \in 1..Len(result) |-> result[k].start_line] = <<1, 41, 81>>
    /\ [k \in 1..Len(result) |-> result[k].end_line] = <<50, 90, 120>>

RECURSIVE Concat(_)
Concat(ss) == IF ss = <<>> THEN <<>> ELSE Head(ss) \o Concat(Tail(ss))

\* the entry is dropped by the filter, cannot be read, or is blank
NoChunks(e) ==
    \/ ~e.is_file
    \/ should_ignore(tree.root \o e.rel)
    \/ SkippedExtension(tree.root \o e.rel)
    \/ ~e.readable
    \/ ~NonBlank(e.content)

\* what an entry contributes to the output of the walk
Contribution(e) ==
    IF NoChunks(e) THEN <<>> ELSE parse_file(self, tree.root, e)

\* C8: parse_repository returns the concatenation, in traversal order, of the
\* chunk lists of the files it visits; a file whose read fails and a blank
\* file contribute nothing, and the result is what the walk of the tree
\* without those files returns.
C8_PerFileIsolation ==
    pc = "done" =>
        /\ result = Concat([k \in 1..Len(tree.files) |->
                               Contribution(tree.files[k])])
        /\ LET kept == SelectSeq(tree.files,
                           LAMBDA e : e.readable /\ NonBlank(e.content))
           IN  result = Concat([k \in 1..Len(kept) |-> Contribution(kept[k])])

\* a walk that met a file it could not read and then chunked a later file
C8_Witness ==
    /\ pc = "done"
    /\ Len(tree.files) = 2
    /\ ~Filtered(tree.files[1])
    /\ ~tree.files[1].readable
    /\ result # <<>>

\* the path has a segment that is a member of the ignore set
HasIgnoredSegment(path) ==
    \E k \in 1..Len(path) : Len(path[k]) = 1 /\ path[k][1] \in IGNORE_PATTERNS

\* C9: no file whose path has an ignored segment is read or contributes a
\* chunk to the output of parse_repository.
C9_IgnoreFiltering ==
    cursor > 0 =>
        /\ \A k \in opened : ~HasIgnoredSegment(tree.root \o tree.files[k].rel)
        /\ \A k \in 1..Len(repo_chunks) :
              ~HasIgnoredSegment(repo_chunks[k].file_path)
        /\ \A k \in 1..Len(tree.files) :
              HasIgnoredSegment(tree.root \o tree.files[k].rel) =>
                  \A j \in 1..Len(repo_chunks) :
                      repo_chunks[j].file_path # tree.files[k].rel

\* a finished walk that passed node_modules/g.js and chunked another file
C9_Witness ==
    /\ pc = "done"
    /\ \E k \in 1..Len(tree.files) :
          /\ tree.files[k].rel = <<<<"node_modules">>, <<"g", ".js">>>>
          /\ tree.files[k].readable
    /\ result # <<>>

\* the dot-pieces of a skip extension
Pieces(ext) == IF ext = ".min.js" THEN <<".min", ".js">> ELSE <<ext>>

\* the file name (stem and dot-pieces) ends with the extension
NameEndsWith(name, ext) ==
    LET ps == Pieces(ext)
    IN  /\ Len(name) > Len(ps)
        /\ SubSeq(name, Len(name) - Len(ps) + 1, Len(name)) = ps

\* C10: a file whose name ends with a member of SKIP_EXTENSIONS, '.min.js'
\* included, contributes no chunk to the output of parse_repository.
C10_SkipExtensionFiltering ==
    \A k \in 1..Len(repo_chunks) :
        LET path == repo_chunks[k].file_path
        IN  \A ext \in SKIP_EXTENSIONS : ~NameEndsWith(path[Len(path)], ext)

\* parse_file has handed the visited entry to a chunker that has not yet
\* been left by parse_repository
InParseFile ==
    /\ cursor > 0
    /\ pc \in {"python_loop", "javascript_loop", "window_loop", "returned"}

\* the language tag of a path: the table entry of its lower-cased extension,
\* 'text' when the table has none
Tag(path) ==
    LET exts == {e \in DOMAIN LANGUAGE_MAP : e = Lower(Suffix(path))}
    IN  IF exts = {} THEN "text" ELSE LANGUAGE_MAP[CHOOSE e \in exts : TRUE]

\* C11 as claimed: python goes to chunk_python, javascript, typescript, java,
\* c, cpp and csharp go to chunk_javascript, every other tag to chunk_by_lines.
C11_DispatchBraceFamily ==
    InParseFile =>
        /\ language = Tag(FullPath(Visited))
        /\ callee = IF language = "python" THEN "chunk_python"
                    ELSE IF language \in {"javascript", "typescript", "java",
                                          "c", "cpp", "csharp"}
                    THEN "chunk_javascript"
                    ELSE "chunk_by_lines"

\* C11 amended: the chunker depends on the tag alone; python goes to
\* chunk_python, javascript and typescript go to chunk_javascript, and every
\* other tag (java, c, cpp, csharp and 'text' included) goes to chunk_by_lines.
C11_Dispatch ==
    InParseFile =>
        /\ language = Tag(FullPath(Visited))
        /\ callee = IF language = "python" THEN "chunk_python"
                    ELSE IF language \in {"javascript", "typescript"}
                    THEN "chunk_javascript"
                    ELSE "chunk_by_lines"

\* a java file that chunk_by_lines has chunked during a walk
C11_Witness ==
    /\ InParseFile
    /\ pc = "returned"
    /\ language = "java"
    /\ callee = "chunk_by_lines"
    /\ result # <<>>

\* chunk_python has returned from a direct call
PyReturned == pc = "returned" /\ callee = "chunk_python"

\* the numbers of the definition-start lines of a file
DefLines(ls) == {j \in 1..Len(ls) : py_func_pattern(lstrip(ls[j]))}

\* C12: a file smaller than max_chunk_size with exactly one definition-start
\* line, at any position and with any other lines around it, comes back from
\* chunk_python as exactly one chunk of type file over lines 1..total_lines.
\* The size is taken as the code takes it, len(content).
C12_SmallFileMerge ==
    (PyReturned /\ Len(content) < self.max_chunk_size
        /\ Cardinality(DefLines(lines)) = 1)
    => /\ result = <<WholeFile(content, file_path, language)>>
       /\ result[1].chunk_type = "file"
       /\ result[1].start_line = 1
       /\ result[1].end_line = Len(lines)

\* chunk_javascript has returned from a direct call
JsReturned == pc = "returned" /\ callee = "chunk_javascript"

\* a line that one of the two declaration patterns matches
JsDecl(line) == js_func_pattern(line) \/ js_class_pattern(line)

\* opening minus closing braces of lines 1..k, and whether one of them opens
RECURSIVE Balance(_, _)
Balance(ls, k) ==
    IF k = 0 THEN 0
    ELSE Balance(ls, k - 1) + Count(ls[k], "{") - Count(ls[k], "}")
Balanced(ls, k) ==
    /\ Balance(ls, k) = 0
    /\ \E j \in 1..k : Count(ls[j], "{") > 0

\* the one chunk that C13 expects: lines 1..k as a function
Closure(k) ==
    <<CodeChunk(Join(SubSeq(lines, 1, k)), file_path, 1, k, language,
                "function")>>

\* a file that opens with a declaration line and has no other
OneDeclaration ==
    /\ JsReturned
    /\ JsDecl(lines[1])
    /\ \A j \in 2..Len(lines) : ~JsDecl(lines[j])

\* C13 as claimed: when the first line is a declaration, no later line is one,
\* the brace balance counted from the declaration line is first back at zero
\* with a '{' seen at line k, and the lines after k are blank, chunk_javascript
\* returns exactly one chunk, of type function, over lines 1..k (stated for the
\* parsers that are configured validly).
C13_BraceClosureFromFirstLine ==
    (OneDeclaration /\ ValidConfig) =>
        \A k \in 1..Len(lines) :
            (/\ Balanced(lines, k)
             /\ \A j \in 1..(k - 1) : ~Balanced(lines, j)
             /\ \A j \in (k + 1)..Len(lines) : ~NonBlank(lines[j]))
            => result = Closure(k)

\* C13 amended: the balance is tested on the lines after the declaration line
\* only; with k the first line after the declaration line at which the balance
\* is zero with a '{' seen, and only blank lines after k, chunk_javascript
\* returns exactly one chunk, of type function, over lines 1..k.
C13_BraceClosure ==
    OneDeclaration =>
        \A k \in 2..Len(lines) :
            (/\ Balanced(lines, k)
             /\ \A j \in 2..(k - 1) : ~Balanced(lines, j)
             /\ \A j \in (k + 1)..Len(lines) : ~NonBlank(lines[j]))
            => result = Closure(k)

\* class Foo { / bar() {} / } has come back as one function chunk over 1..3
C13_Witness ==
    /\ OneDeclaration
    /\ lines = <<<<"class", "{">>, <<SP, "x", "{", "}">>, <<"}">>>>
    /\ Balanced(lines, 3)
    /\ ~Balanced(lines, 2)
    /\ result = Closure(3)

\* the values the data model gives chunk_type
ChunkTypes == {"file", "block", "function", "class"}

\* C14: every chunk a chunker returns has a chunk_type among file, block,
\* function and class (stated for the parsers that are configured validly).
C14_ChunkTypeDomain ==
    (pc = "returned" /\ ValidConfig) =>
        \A k \in 1..Len(result) : result[k].chunk_type \in ChunkTypes

\* C15: in chunk_javascript a declaration line read while a definition is
\* being accumulated is handled as any other line of that definition: it is
\* appended to the current chunk and the balance is updated (closing the chunk
\* when the balance is back at zero), so that the lines accumulated so far stay
\* in the chunk that is emitted.
C15_DeclarationInsideDefinition ==
    [][(/\ pc = "javascript_loop"
        /\ i <= Len(lines)
        /\ i' = i + 1
        /\ ValidConfig
        /\ in_definition
        /\ JsDecl(lines[i]))
       => LET appended == Append(current_chunk, lines[i])
              count == brace_count + BraceDelta(lines[i])
          IN  IF count = 0 /\ HasOpenBrace(appended)
              THEN chunks' = Append(chunks,
                                    CodeChunk(Join(appended), file_path,
                                              current_start, i, language,
                                              "function"))
              ELSE /\ current_chunk' = appended
                   /\ current_start' = current_start
                   /\ brace_count' = count
                   /\ chunks' = chunks]_vars

\* a line of the file is a definition start
DefStart(line) == py_func_pattern(lstrip(line))

\* chunk_python has returned its structural output, not the whole-file chunk
PyStructural ==
    /\ PyReturned
    /\ ValidConfig
    /\ ~PyWholeFileTest(self, chunks, content)

\* C16: in the structural output of chunk_python a chunk whose first line is a
\* definition start has as chunk_type the first word of that line, and a chunk
\* is a block only if its first line is not a definition start; the last
\* chunk, flushed at the end of the file, included.
C16_DefinitionTypeTagging ==
    PyStructural =>
        \A k \in 1..Len(result) :
            LET first == lines[result[k].start_line]
            IN  /\ DefStart(first) =>
                       result[k].chunk_type = Head(lstrip(first))
                /\ result[k].chunk_type = "block" => ~DefStart(first)

\* the number of leading whitespace characters of a line
Indentation(line) == Len(line) - Len(lstrip(line))

\* C17: while chunk_python accumulates a definition recorded at indentation w,
\* a definition-start line indented deeper than w, by spaces or by tabs, is
\* appended without closing the chunk or starting another; only a
\* definition-start line indented at most w makes a boundary.
C17_NestedDefinitions ==
    [][(/\ pc = "python_loop"
        /\ i <= Len(lines)
        /\ i' = i + 1
        /\ ValidConfig
        /\ in_definition)
       => /\ (DefStart(lines[i]) /\ Indentation(lines[i]) > indent_level)
                => /\ chunks' = chunks
                   /\ current_start' = current_start
                   /\ current_chunk' = Append(current_chunk, lines[i])
          /\ (chunks' # chunks \/ current_start' # current_start)
                => (DefStart(lines[i])
                        /\ Indentation(lines[i]) <= indent_level)]_vars

\* C18: when the structural pass of chunk_python left exactly one chunk, the
\* result is the single whole-file chunk of type file if and only if the
\* number of lines of the file is below max_chunk_size.
C18_ThresholdInLines ==
    (PyReturned /\ ValidConfig /\ Len(chunks) = 1) =>
        (result = <<WholeFile(content, file_path, language)>>
            <=> Len(lines) < self.max_chunk_size)

\* C19: the chunks chunk_python returns come in strictly increasing
\* start_line order with pairwise disjoint line ranges, every line with a
\* non-whitespace character lies in exactly one of them, and every line that
\* lies in none is blank.
C19_PartitionUpToBlankLines ==
    PyReturned =>
        /\ \A k \in 1..(Len(result) - 1) :
              /\ result[k].start_line < result[k + 1].start_line
              /\ result[k].end_line < result[k + 1].start_line
        /\ \A k \in 1..Len(result) :
              /\ 1 <= result[k].start_line
              /\ result[k].start_line <= result[k].end_line
              /\ result[k].end_line <= Len(lines)
        /\ \A n \in 1..Len(lines) :
              /\ NonBlank(lines[n]) => Cardinality(Holding(result, n)) = 1
              /\ Holding(result, n) = {} => ~NonBlank(lines[n])
              /\ Cardinality(Holding(result, n)) <= 1

\* a structural output of two chunks that leaves out the blank first line
C19_Witness ==
    /\ PyReturned
    /\ Len(lines) = 3
    /\ ~NonBlank(lines[1])
    /\ Len(result) = 2
    /\ result[1].start_line = 2
    /\ result[2].start_line = 3
    /\ Holding(result, 1) = {}

\* C20: every line with a non-whitespace character lies in the line range,
\* and in the content, of at least one chunk chunk_javascript returns.
C20_NoSourceTextLost ==
    (JsReturned /\ ValidConfig) =>
        \A n \in 1..Len(lines) :
            NonBlank(lines[n]) =>
                \E k \in Holding(result, n) : Faithful(result[k], lines)

====
